---- MODULE Spec2Model ----
(***************************************************************************)
(* Model of the Pressensor integration: the BLE session                    *)
(* (custom_components/pressensor/client.py), the reconnection coordinator  *)
(* (custom_components/pressensor/coordinator.py) and the zero-pressure     *)
(* button (custom_components/pressensor/button.py).                        *)
(*                                                                         *)
(* The asyncio event loop is modelled by its FIFO ready queue: a handle is *)
(* appended by create_task, by call_soon_threadsafe and by the completion  *)
(* of an awaited radio operation, and handles run in order.  Timer firings,*)
(* advertisement callbacks and service calls run at any time.  The radio   *)
(* subsystem (bleak) is the environment: every awaited operation may       *)
(* succeed or fail, and a live link may be lost at any moment.             *)
(***************************************************************************)
EXTENDS Integers, Sequences, FiniteSets, TLC

VARIABLES
    connecting,              \* coordinator._connecting
    expected_disconnect,     \* coordinator._expected_disconnect
    was_available,           \* coordinator._was_available
    last_battery_check,      \* coordinator._last_battery_check (<<>> is None)
    registered,              \* advertisement callback and battery timer armed
    shutdown_requested,      \* DataUpdateCoordinator stopped its refresh timer
    client,                  \* coordinator._client is not None
    bleak,                   \* PressensorClient._client: BleakClient id, 0 is None
    state,                   \* PressensorClient._state
    last_reported_pressure,  \* PressensorClient._last_reported_pressure
    live,                    \* BleakClient ids whose is_connected is true
    subs,                    \* BleakClient ids with an active notify subscription
    nextLink,                \* number of BleakClient objects handed out so far
    tasks,                   \* position of every coroutine
    ready,                   \* the event loop's FIFO ready queue
    now,                     \* utcnow(), in units of the battery interval
    events,                  \* external events delivered so far
    ev,                      \* what the last step did and returned
    data,                    \* decoder runs: the payload to be delivered
    inp,                     \* decoder runs: the inputs delivered so far
    out,                     \* decoder runs: the result after each input
    handle                   \* peripheral handles: latest seen by the radio
                             \* stack, held by the session; sessions made

vars == <<connecting, expected_disconnect, was_available, last_battery_check,
          registered, shutdown_requested, client, bleak, state,
          last_reported_pressure, live, subs, nextLink, tasks, ready, now,
          events, ev, data, inp, out, handle>>

coordVars == <<connecting, expected_disconnect, was_available,
               last_battery_check, registered, shutdown_requested, client>>
radioVars == <<live, subs, nextLink>>
decodeVars == <<data, inp, out>>

(***************************************************************************)
(* Bounds of the model.                                                    *)
(***************************************************************************)
MaxEvents == 3     \* triggers, service calls and radio events in one run
MaxActive == 2     \* coroutines running at the same time
MaxTime == 2       \* last clock value
MaxSeq == 5        \* notifications in one decoder run

BATTERY_CHECK_INTERVAL == 1

None == <<>>
Some(x) == <<x>>

(***************************************************************************)
(* Protocol codec (client.py, _on_pressure_notification / read_battery).   *)
(***************************************************************************)
\* a decoder that reads the two bytes as an unsigned number
UnpackHUnsigned(b) == b[1] * 256 + b[2]

\* struct.unpack(">h", b): two's-complement signed big-endian 16 bit
UnpackH(b) ==
    LET u == b[1] * 256 + b[2]
    IN  IF u >= 32768 THEN u - 65536 ELSE u

\* struct.pack(">h", n), used to build payloads
PackH(n) ==
    LET u == IF n < 0 THEN n + 65536 ELSE n
    IN  <<u \div 256, u % 256>>

Abs(x) == IF x < 0 THEN -x ELSE x

\* a plausible slip: round half away from zero / half up
Round10HalfUp(n) ==
    LET q == n \div 10
        r == n % 10
    IN  IF r >= 5 THEN (q + 1) * 10 ELSE q * 10

\* round(n, -1) on a Python int: n minus the remainder of n divided by 10
\* rounded to the nearest quotient, ties to the even quotient
Round10(n) ==
    LET q == n \div 10
        r == n % 10
        up == r > 5 \/ (r = 5 /\ q % 2 = 1)
    IN  IF up THEN (q + 1) * 10 ELSE q * 10

\* a plausible slip: threshold of one full resolution step
DeadbandPasses10(cand, last) == Abs(cand - last) > 10

\* abs(pressure_mbar - self._last_reported_pressure) > 5
DeadbandPasses(cand, last) == Abs(cand - last) > 5

\* the rounded pressure carried by a payload of at least two bytes
Candidate(d) == Round10(UnpackH(SubSeq(d, 1, 2)))

\* PressensorState()
FreshState ==
    [pressure_mbar |-> 0, temperature_c |-> None,
     battery_percent |-> None, connected |-> FALSE]

\* The whole of _on_pressure_notification on session (st, last): the new
\* state, the new dead-band baseline and whether _notify_state is called.
\* temperature_c holds temp_tenths / 10.0 as the pair <<integer part,
\* tenths digit>> of its decimal expansion, sign kept apart.
TempOf(tenths) ==
    <<IF tenths < 0 THEN -1 ELSE 1, Abs(tenths) \div 10, Abs(tenths) % 10>>

\* a pressure branch entered whatever the payload's length, an absent
\* pressure read as zero
PressureAcceptedAnyLength(d, last) ==
    DeadbandPasses(IF Len(d) >= 2 THEN Candidate(d) ELSE 0, last)

\* the pressure branch: at least two bytes and the dead-band passed
PressureAccepted(d, last) ==
    Len(d) >= 2 /\ DeadbandPasses(Candidate(d), last)

\* a temperature branch with a dead-band of half a degree
TemperatureChangesCoarse(d, old) ==
    /\ Len(d) >= 4
    /\ \/ old = None
       \/ LET t == old[1]
          IN  Abs(UnpackH(SubSeq(d, 3, 4)) - t[1] * (t[2] * 10 + t[3])) > 5

\* the temperature branch: at least four bytes and a value other than
\* the stored one
TemperatureChanges(d, old) ==
    Len(d) >= 4 /\ Some(TempOf(UnpackH(SubSeq(d, 3, 4)))) # old

\* a filter that never moves its baseline
BaselineKept(acc, cand, last) == last

\* self._last_reported_pressure after the pressure branch: the accepted
\* candidate, assigned next to state.pressure_mbar
BaselineAfter(acc, cand, last) == IF acc THEN cand ELSE last

OnNotification(d, st, last) ==
    LET hasP == Len(d) >= 2
        cand == IF hasP THEN Candidate(d) ELSE 0
        accP == PressureAccepted(d, last)
        st1 == IF accP THEN [st EXCEPT !.pressure_mbar = cand] ELSE st
        last1 == BaselineAfter(accP, cand, last)
        hasT == Len(d) >= 4
        newT == IF hasT THEN Some(TempOf(UnpackH(SubSeq(d, 3, 4)))) ELSE None
        accT == TemperatureChanges(d, st1.temperature_c)
        st2 == IF accT THEN [st1 EXCEPT !.temperature_c = newT] ELSE st1
        accC == ~st2.connected
        st3 == [st2 EXCEPT !.connected = TRUE]
    IN  [st |-> st3, last |-> last1, changed |-> accP \/ accT \/ accC]

(***************************************************************************)
(* Coroutines and the ready queue.                                         *)
(***************************************************************************)
AdvTasks == {"adv1", "adv2"}
TaskIds == AdvTasks \cup {"manual", "poll", "maint", "shutdown", "zero"}

\* pc values inside PressensorClient.connect, each named after the radio
\* operation connect() awaits there
ConnectPcs == {"establish", "subscribe", "battery"}

\* a coroutine: where it stands (pc), the BleakClient it works on (lk),
\* whether it was spawned while another advertisement task was queued
\* (dup), the radio operations of connect() and read_battery() it has
\* issued so far (ops), and the peripheral handle its connect() call
\* works with (dev, 0 for none)
Idle == [pc |-> "idle", lk |-> 0, dup |-> FALSE, ops |-> <<>>, dev |-> 0]
At(t, p, k) ==
    [pc |-> p, lk |-> k, dup |-> tasks[t].dup, dev |-> tasks[t].dev,
     ops |-> IF p \in ConnectPcs \cup {"mread"}
             THEN Append(tasks[t].ops, p)
             ELSE tasks[t].ops]

StartH(t) == [h |-> "start", t |-> t, ok |-> TRUE, v |-> <<>>]
ResumeH(t, ok, v) == [h |-> "resume", t |-> t, ok |-> ok, v |-> v]
\* _on_state_update is queued with a reference to the live state object
StateH == [h |-> "state", t |-> "-", ok |-> TRUE, v |-> <<>>]
DiscH == [h |-> "disc", t |-> "-", ok |-> TRUE, v |-> <<>>]

\* what a step did: its kind a, the coroutine t it belongs to, whether it
\* went well, what it returned to a service caller and how many times it
\* called async_set_updated_data
Ev(a, t, ok) == [a |-> a, t |-> t, ok |-> ok, ret |-> "-", pub |-> 0]
\* a step in which a service call returns r to its caller
EvRet(a, t, ok, r) == [a |-> a, t |-> t, ok |-> ok, ret |-> r, pub |-> 0]
\* a step that calls async_set_updated_data n times
EvPub(a, t, ok, n) == [a |-> a, t |-> t, ok |-> ok, ret |-> "-", pub |-> n]
\* a step that ends a handler: what it reports and what it published
EvRetPub(a, t, ok, r, n) == [a |-> a, t |-> t, ok |-> ok, ret |-> r, pub |-> n]

\* the Session.connect calls that have not returned yet
InFlight == {t \in TaskIds : tasks[t].pc \in ConnectPcs}
\* the coroutines that are running
Active == {t \in TaskIds : tasks[t].pc \notin {"idle", "done"}}
CanStart == Cardinality(Active) < MaxActive
\* one more trigger, service call or radio event is delivered
Event == events < MaxEvents /\ events' = events + 1
\* a radio operation of t completed and its wake-up is still queued
Woken(t) == \E i \in 1..Len(ready) : ready[i].h = "resume" /\ ready[i].t = t
\* the handle the loop runs next
HeadIs(h) == ready # <<>> /\ Head(ready).h = h
Resuming(t, p) == HeadIs("resume") /\ Head(ready).t = t /\ tasks[t].pc = p

\* PressensorClient.connected
Connected == bleak # 0 /\ bleak \in live
\* self._client and self._client.connected
ClientConnected == client /\ Connected

\* PressensorClient._notify_state with the coordinator's _state_cb:
\* call_soon_threadsafe(self._on_state_update, state)
NotifyState(q, st) == Append(q, StateH)

\* a handler that calls _notify_state on every notification
NotifyAlways(q, changed, st) == NotifyState(q, st)

\* the last statement of _on_pressure_notification
NotifyIfChanged(q, changed, st) == IF changed THEN NotifyState(q, st) ELSE q

\* bluetooth.async_ble_device_from_address: found or None
Lookup == {TRUE, FALSE}

\* payloads the peripheral sends while the coordinator runs
MainPayloads == {PackH(100)}
\* answers of the battery characteristic
BatteryPayloads == {<<85>>}

\* the radio stack knows the peripheral from discovery (handle 1); no
\* session exists
NoHandle == [seen |-> 1, held |-> 0, made |-> 0]

Init ==
    /\ connecting = FALSE
    /\ expected_disconnect = FALSE
    /\ was_available = FALSE
    /\ last_battery_check = None
    /\ registered = FALSE
    /\ shutdown_requested = FALSE
    /\ client = FALSE
    /\ bleak = 0
    /\ state = FreshState
    /\ last_reported_pressure = 0
    /\ live = {}
    /\ subs = {}
    /\ nextLink = 0
    /\ tasks = [t \in TaskIds |-> Idle]
    /\ ready = <<>>
    /\ now = 1
    /\ events = 0
    /\ ev = Ev("init", "-", TRUE)
    /\ data = <<>>
    /\ inp = <<>>
    /\ out = <<>>
    /\ handle = NoHandle

\* PressensorCoordinator.async_setup
AsyncSetup ==
    /\ ~registered /\ ~expected_disconnect
    /\ registered' = TRUE
    /\ ev' = Ev("setup", "-", TRUE)
    /\ UNCHANGED <<connecting, expected_disconnect, was_available,
                   last_battery_check, shutdown_requested, client, bleak,
                   state, last_reported_pressure, radioVars, tasks, ready,
                   now, events, decodeVars, handle>>

\* the wall clock advances
Tick ==
    /\ now < MaxTime
    /\ now' = now + 1
    /\ ev' = Ev("tick", "-", TRUE)
    /\ UNCHANGED <<coordVars, bleak, state, last_reported_pressure, radioVars,
                   tasks, ready, events, decodeVars, handle>>

(***************************************************************************)
(* PressensorClient.connect, entered through _async_ensure_connected.      *)
(***************************************************************************)
\* _async_ensure_connected up to the first suspension of connect():
\* create the client if there is none, then await establish_connection
\* if self._client is None
Constructs == ~client

\* the session's handle once _async_ensure_connected has created the
\* session with h or called set_ble_device(h) on it
HeldAfter(h) == h

\* connect() hands self._ble_device, as it is at the call, to
\* establish_connection
EnsureConnected(t, h) ==
    /\ client' = TRUE
    /\ handle' = [handle EXCEPT !.held = HeldAfter(h),
                                !.made = @ + (IF Constructs THEN 1 ELSE 0)]
    /\ tasks' = [tasks EXCEPT ![t] =
                    [At(t, "establish", 0) EXCEPT !.dev = handle'.held]]

\* a guard that looks at the attempt flag alone
GuardSkipsFlagOnly == connecting

\* the guard every trigger evaluates first
GuardSkips == connecting \/ ClientConnected

\* what async_request_connect reports once _async_ensure_connected is
\* over: connect() returns False instead of raising, so the except branch
\* never runs and the caller sees a normal return
ManualOutcome(ok) == "ok"

\* handlers without a net: a failed step leaves an opportunistic handler
\* as an exception
TriggerOutcomeUncaught(t, ok) ==
    IF t = "manual" THEN ManualOutcome(ok)
    ELSE IF ok THEN "ok" ELSE "raise"

\* how the handler of kind t ends after a step that went well or not:
\* connect() turns every failure into a False that _async_ensure_connected
\* drops, the poll returns when the peripheral is unknown, and the battery
\* check logs a warning for a missing peripheral, a failed connect and a
\* failed read alike
TriggerOutcome(t, ok) ==
    IF t = "manual" THEN ManualOutcome(ok) ELSE "ok"

\* the triggers that hold the attempt flag around their attempt
GuardedTasks == AdvTasks \cup {"manual"}

\* a trigger that clears the flag after a successful attempt only
GuardReleasedOnSuccess(t, ok) ==
    IF t \in GuardedTasks /\ ok THEN FALSE ELSE connecting

\* the finally clause of _async_connect_from_advertisement and of
\* async_request_connect; poll and battery check leave the flag alone
GuardReleased(t, ok) == IF t \in GuardedTasks THEN FALSE ELSE connecting

\* what follows the return of connect() in the caller of kind t:
\* _async_ensure_connected stamps the battery check, then the trigger's
\* own epilogue runs
AfterConnect(t, ok, st, q) ==
    /\ state' = st
    /\ ready' = q
    /\ last_battery_check' = Some(now)
    /\ connecting' = GuardReleased(t, ok)
    /\ tasks' = [tasks EXCEPT ![t] = Idle]
    /\ ev' = EvRetPub("connect_ret", t, ok, TriggerOutcome(t, ok),
                      IF t = "maint" THEN 1 ELSE 0)
    /\ UNCHANGED <<expected_disconnect, was_available, registered,
                   shutdown_requested, client, last_reported_pressure,
                   radioVars, now, events, decodeVars, handle>>

\* an except branch that returns failure without telling anyone
ConnectFailsSilently(t, q) ==
    AfterConnect(t, FALSE, [state EXCEPT !.connected = FALSE], q)

\* the except branch of connect()
ConnectFails(t, q) ==
    LET st == [state EXCEPT !.connected = FALSE]
    IN  AfterConnect(t, FALSE, st, NotifyState(q, st))

\* the tail of connect()'s try block
ConnectSucceeds(t, st0, q) ==
    LET st == [st0 EXCEPT !.connected = TRUE]
    IN  AfterConnect(t, TRUE, st, NotifyState(q, st))

\* the radio finishes establish_connection for t
EstablishDone(t, ok) ==
    /\ tasks[t].pc = "establish" /\ ~Woken(t)
    /\ IF ok
       THEN /\ nextLink' = nextLink + 1
            /\ live' = live \cup {nextLink + 1}
            /\ ready' = Append(ready, ResumeH(t, TRUE, <<nextLink + 1>>))
       ELSE /\ ready' = Append(ready, ResumeH(t, FALSE, <<>>))
            /\ UNCHANGED <<nextLink, live>>
    /\ ev' = Ev("establish_io", t, ok)
    /\ UNCHANGED <<coordVars, bleak, state, last_reported_pressure, subs,
                   tasks, now, events, decodeVars, handle>>

\* connect() resumes after establish_connection
ResumeEstablish(t) ==
    /\ Resuming(t, "establish")
    /\ IF Head(ready).ok
       THEN /\ bleak' = Head(ready).v[1]
            /\ tasks' = [tasks EXCEPT ![t] = At(t, "subscribe", Head(ready).v[1])]
            /\ ready' = Tail(ready)
            /\ ev' = Ev("established", t, TRUE)
            /\ UNCHANGED <<coordVars, state, last_reported_pressure,
                           radioVars, now, events, decodeVars, handle>>
       ELSE /\ ConnectFails(t, Tail(ready))
            /\ UNCHANGED bleak

\* the radio finishes start_notify for t
SubscribeDone(t, ok) ==
    /\ tasks[t].pc = "subscribe" /\ ~Woken(t)
    /\ ok => tasks[t].lk \in live
    /\ subs' = IF ok THEN subs \cup {tasks[t].lk} ELSE subs
    /\ ready' = Append(ready, ResumeH(t, ok, <<>>))
    /\ ev' = Ev("subscribe_io", t, ok)
    /\ UNCHANGED <<coordVars, bleak, state, last_reported_pressure, live,
                   nextLink, tasks, now, events, decodeVars, handle>>

\* connect() resumes after start_notify and calls read_battery()
ResumeSubscribe(t) ==
    /\ Resuming(t, "subscribe")
    /\ UNCHANGED bleak
    /\ IF ~Head(ready).ok
       THEN ConnectFails(t, Tail(ready))
       ELSE IF ~Connected
            THEN ConnectSucceeds(t, state, Tail(ready))
            ELSE /\ tasks' = [tasks EXCEPT ![t] = At(t, "battery", bleak)]
                 /\ ready' = Tail(ready)
                 /\ ev' = Ev("subscribed", t, TRUE)
                 /\ UNCHANGED <<coordVars, state, last_reported_pressure,
                                radioVars, now, events, decodeVars, handle>>

\* the radio finishes read_gatt_char(BATTERY) for t
ReadDone(t, ok, v) ==
    /\ tasks[t].pc \in {"battery", "mread"} /\ ~Woken(t)
    /\ ok => tasks[t].lk \in live
    /\ ready' = Append(ready, ResumeH(t, ok, IF ok THEN v ELSE <<>>))
    /\ ev' = Ev("read_io", t, ok)
    /\ UNCHANGED <<coordVars, bleak, state, last_reported_pressure, radioVars,
                   tasks, now, events, decodeVars, handle>>

\* a read_battery() that drops the value it read
BatteryIgnored(v, st) == st

\* the rest of read_battery() once read_gatt_char returned v
BatteryStored(v, st) ==
    IF Len(v) >= 1 THEN [st EXCEPT !.battery_percent = Some(v[1])] ELSE st
BatteryNotified(v, st, q) ==
    IF Len(v) >= 1 THEN NotifyState(q, st) ELSE q

\* connect() resumes after the initial battery read
ResumeBattery(t) ==
    /\ Resuming(t, "battery")
    /\ UNCHANGED bleak
    /\ IF ~Head(ready).ok
       THEN ConnectFails(t, Tail(ready))
       ELSE LET st == BatteryStored(Head(ready).v, state)
            IN  ConnectSucceeds(t, st, BatteryNotified(Head(ready).v, st, Tail(ready)))

(***************************************************************************)
(* The four triggers of the coordinator.                                   *)
(***************************************************************************)
\* a plausible slip: the spawned task does not look at the guard again
AdvTaskSkipsNever == FALSE

\* _async_connect_from_advertisement: if self._connecting: return
AdvTaskSkips == connecting

\* _on_bluetooth_advertisement: guard, then create the background task
OnBluetoothAdvertisement ==
    /\ Event
    /\ registered
    /\ ev' = Ev("advert", "-", ~GuardSkips)
    /\ handle' = [handle EXCEPT !.seen = @ + 1]
    /\ IF GuardSkips
       THEN UNCHANGED <<tasks, ready>>
       ELSE \E t \in AdvTasks :
              /\ CanStart
              /\ tasks[t].pc = "idle"
              /\ t = "adv2" => tasks["adv1"].pc # "idle"
              /\ tasks' = [tasks EXCEPT ![t] =
                     [pc |-> "queued", lk |-> 0,
                      dup |-> \E u \in AdvTasks : tasks[u].pc = "queued",
                      ops |-> <<>>, dev |-> handle'.seen]]
              /\ ready' = Append(ready, StartH(t))
    /\ UNCHANGED <<coordVars, bleak, state, last_reported_pressure, radioVars,
                   now, decodeVars>>

\* the loop starts a task created by the advertisement callback
RunAdvTask(t) ==
    /\ HeadIs("start") /\ Head(ready).t = t
    /\ ready' = Tail(ready)
    /\ IF AdvTaskSkips
       THEN /\ tasks' = [tasks EXCEPT ![t] =
                            [At(t, "idle", 0) EXCEPT !.dev = 0]]
            /\ ev' = Ev("adv_skip", t, FALSE)
            /\ UNCHANGED <<connecting, client, handle>>
       ELSE /\ connecting' = TRUE
            /\ EnsureConnected(t, tasks[t].dev)
            /\ ev' = Ev("adv_connect", t, TRUE)
    /\ UNCHANGED <<expected_disconnect, was_available, last_battery_check,
                   registered, shutdown_requested, bleak, state,
                   last_reported_pressure, radioVars, now, events, decodeVars>>

\* a lookup failure raised after the attempt flag was set
RaiseAfterGuardSet ==
    /\ ev' = EvRet("manual_notfound", "manual", FALSE, "DeviceNotFound")
    /\ connecting' = TRUE
    /\ UNCHANGED <<client, tasks, handle>>

\* async_request_connect when the lookup returns nothing: the error is
\* raised before a client is created and before the flag is set
RaiseDeviceNotFound ==
    /\ ev' = EvRet("manual_notfound", "manual", FALSE, "DeviceNotFound")
    /\ UNCHANGED <<connecting, client, tasks, handle>>

\* async_request_connect up to its first suspension
RequestConnect ==
    /\ Event
    /\ tasks["manual"].pc = "idle"
    /\ ~expected_disconnect
    /\ UNCHANGED <<expected_disconnect, was_available, last_battery_check,
                   registered, shutdown_requested, bleak, state,
                   last_reported_pressure, radioVars, ready, now, decodeVars>>
    /\ IF GuardSkips
       THEN /\ ev' = EvRet("manual_skip", "manual", TRUE, "ok")
            /\ UNCHANGED <<connecting, client, tasks, handle>>
       ELSE \E found \in Lookup :
              IF ~found
              THEN RaiseDeviceNotFound
              ELSE /\ CanStart
                   /\ connecting' = TRUE
                   /\ EnsureConnected("manual", handle.seen)
                   /\ ev' = Ev("manual_connect", "manual", TRUE)

\* _async_update_data (fallback poll) up to its first suspension
UpdateData ==
    /\ Event
    /\ tasks["poll"].pc = "idle"
    /\ ~shutdown_requested
    /\ UNCHANGED <<connecting, expected_disconnect, was_available,
                   last_battery_check, registered, shutdown_requested, bleak,
                   state, last_reported_pressure, radioVars, ready, now,
                   decodeVars>>
    /\ IF GuardSkips
       THEN /\ ev' = Ev("poll_skip", "poll", TRUE)
            /\ UNCHANGED <<client, tasks, handle>>
       ELSE \E found \in Lookup :
              IF ~found
              THEN /\ ev' = EvRet("poll_notfound", "poll", FALSE,
                                   TriggerOutcome("poll", FALSE))
                   /\ UNCHANGED <<client, tasks, handle>>
              ELSE /\ CanStart
                   /\ EnsureConnected("poll", handle.seen)
                   /\ ev' = Ev("poll_connect", "poll", TRUE)

\* a recency test with the comparison turned round
CheckedRecentlyReversed ==
    /\ last_battery_check # None
    /\ now - last_battery_check[1] > BATTERY_CHECK_INTERVAL

\* utcnow() - self._last_battery_check < BATTERY_CHECK_INTERVAL
CheckedRecently ==
    /\ last_battery_check # None
    /\ now - last_battery_check[1] < BATTERY_CHECK_INTERVAL

\* _async_battery_check up to its first suspension
BatteryCheck ==
    /\ Event
    /\ registered
    /\ tasks["maint"].pc = "idle"
    /\ UNCHANGED <<connecting, expected_disconnect, was_available,
                   last_battery_check, registered, shutdown_requested, bleak,
                   state, last_reported_pressure, radioVars, ready, now,
                   decodeVars>>
    /\ IF CheckedRecently
       THEN /\ ev' = Ev("maint_recent", "maint", TRUE)
            /\ UNCHANGED <<client, tasks, handle>>
       ELSE IF ClientConnected
            THEN /\ CanStart
                 /\ tasks' = [tasks EXCEPT !["maint"] = At("maint", "mread", bleak)]
                 /\ ev' = Ev("maint_read", "maint", TRUE)
                 /\ UNCHANGED <<client, handle>>
            ELSE \E found \in Lookup :
                   IF ~found
                   THEN /\ ev' = EvRet("maint_notfound", "maint", FALSE,
                                        TriggerOutcome("maint", FALSE))
                        /\ UNCHANGED <<client, tasks, handle>>
                   ELSE /\ CanStart
                        /\ EnsureConnected("maint", handle.seen)
                        /\ ev' = Ev("maint_connect", "maint", TRUE)

\* a battery check that stamps whether or not the read went through
StampAfterReadAlways(ok) == Some(now)

\* _last_battery_check after the try block around read_battery(): the
\* assignment is skipped when the read raised
StampAfterRead(ok) == IF ok THEN Some(now) ELSE last_battery_check

\* _async_battery_check resumes after read_battery() on a connected client
ResumeMaintRead ==
    /\ Resuming("maint", "mread")
    /\ tasks' = [tasks EXCEPT !["maint"] = Idle]
    /\ ev' = EvRetPub("read_ret", "maint", Head(ready).ok,
                      TriggerOutcome("maint", Head(ready).ok),
                      IF Head(ready).ok THEN 1 ELSE 0)
    /\ IF Head(ready).ok
       THEN /\ state' = BatteryStored(Head(ready).v, state)
            /\ ready' = BatteryNotified(Head(ready).v, state', Tail(ready))
       ELSE /\ ready' = Tail(ready)
            /\ UNCHANGED state
    /\ last_battery_check' = StampAfterRead(Head(ready).ok)
    /\ UNCHANGED <<connecting, expected_disconnect, was_available, registered,
                   shutdown_requested, client, bleak, last_reported_pressure,
                   radioVars, now, events, decodeVars, handle>>

(***************************************************************************)
(* Callbacks marshalled onto the loop by call_soon_threadsafe.             *)
(***************************************************************************)
\* PressensorCoordinator._on_state_update
RunStateUpdate ==
    /\ HeadIs("state")
    /\ ready' = Tail(ready)
    /\ was_available' = TRUE
    /\ ev' = EvPub("state_update", "-", state.connected, 1)
    /\ UNCHANGED <<connecting, expected_disconnect, last_battery_check,
                   registered, shutdown_requested, client, bleak, state,
                   last_reported_pressure, radioVars, tasks, now,
                   events, decodeVars, handle>>

\* a handler that publishes whether or not the disconnect was expected
DisconnectPublishesAlways == IF expected_disconnect THEN 1 ELSE 1

\* the async_set_updated_data calls of _on_disconnect: one, inside
\* if not self._expected_disconnect
DisconnectPublishes == IF expected_disconnect THEN 0 ELSE 1

\* PressensorCoordinator._on_disconnect
RunDisconnect ==
    /\ HeadIs("disc")
    /\ ready' = Tail(ready)
    /\ was_available' = IF expected_disconnect THEN was_available ELSE FALSE
    /\ ev' = EvPub("disconnect_cb", "-", ~expected_disconnect,
                   DisconnectPublishes)
    /\ UNCHANGED <<connecting, expected_disconnect, last_battery_check,
                   registered, shutdown_requested, client, bleak, state,
                   last_reported_pressure, radioVars, tasks, now,
                   events, decodeVars, handle>>

(***************************************************************************)
(* Events the radio subsystem pushes into the session.                     *)
(***************************************************************************)
\* a session that tells of the disconnect before it tells of the state
DisconnectCallbacksReversed(q, st, cb) ==
    IF cb THEN NotifyState(Append(q, DiscH), st) ELSE NotifyState(q, st)

\* the callbacks of PressensorClient._on_disconnect: _notify_state, then
\* the disconnect callback if one was given to the constructor (cb)
DisconnectCallbacks(q, st, cb) ==
    IF cb THEN Append(NotifyState(q, st), DiscH) ELSE NotifyState(q, st)

\* PressensorClient._on_disconnect on a session built with (cb) or
\* without a disconnect callback
SessionOnDisconnectWith(q, cb) ==
    LET st == [state EXCEPT !.connected = FALSE]
    IN  [st |-> st, q |-> DisconnectCallbacks(q, st, cb)]

\* PressensorClient._on_disconnect with the coordinator's _disconnect_cb
SessionOnDisconnect(q) == SessionOnDisconnectWith(q, TRUE)

\* the link of BleakClient k drops; bleak calls disconnected_callback
LinkLost(k) ==
    /\ Event
    /\ k \in live
    /\ live' = live \ {k}
    /\ subs' = subs \ {k}
    /\ state' = SessionOnDisconnect(ready).st
    /\ ready' = SessionOnDisconnect(ready).q
    /\ ev' = Ev("link_lost", "-", TRUE)
    /\ UNCHANGED <<coordVars, bleak, last_reported_pressure, nextLink, tasks,
                   now, decodeVars, handle>>

\* a notification arrives on a subscribed live link
Notification(d) ==
    /\ Event
    /\ subs \cap live # {}
    /\ LET r == OnNotification(d, state, last_reported_pressure)
       IN  /\ state' = r.st
           /\ last_reported_pressure' = r.last
           /\ ready' = NotifyIfChanged(ready, r.changed, r.st)
           /\ ev' = Ev("notification", "-", r.changed)
    /\ UNCHANGED <<coordVars, bleak, radioVars, tasks, now, decodeVars, handle>>

(***************************************************************************)
(* Shutdown and PressensorClient.disconnect.                               *)
(***************************************************************************)
\* the end of PressensorClient.disconnect followed by
\* DataUpdateCoordinator.async_shutdown
DisconnectEnds(q) ==
    /\ state' = [state EXCEPT !.connected = FALSE]
    /\ ready' = NotifyState(q, state')
    /\ shutdown_requested' = TRUE
    /\ tasks' = [tasks EXCEPT !["shutdown"] = At("shutdown", "done", 0)]

\* a shutdown that cancels the callbacks but leaves the flag for later
ShutdownBeginsUnflagged ==
    /\ UNCHANGED expected_disconnect
    /\ registered' = FALSE

\* the synchronous head of async_shutdown: the flag is set, then the
\* advertisement callback and the battery timer are cancelled, all before
\* the first await
ShutdownBegins ==
    /\ expected_disconnect' = TRUE
    /\ registered' = FALSE

\* async_shutdown up to its first suspension
Shutdown ==
    /\ Event
    /\ tasks["shutdown"].pc = "idle"
    /\ ShutdownBegins
    /\ ev' = Ev("shutdown", "shutdown", TRUE)
    /\ IF ~client
       THEN /\ shutdown_requested' = TRUE
            /\ tasks' = [tasks EXCEPT !["shutdown"] = At("shutdown", "done", 0)]
            /\ UNCHANGED <<state, ready>>
       ELSE IF Connected
            THEN /\ CanStart
                 /\ tasks' = [tasks EXCEPT !["shutdown"] = At("shutdown", "stop", bleak)]
                 /\ UNCHANGED <<state, ready, shutdown_requested>>
            ELSE DisconnectEnds(ready)
    /\ UNCHANGED <<connecting, was_available, last_battery_check, client,
                   bleak, last_reported_pressure, radioVars, now,
                   decodeVars, handle>>

\* the radio finishes stop_notify
StopNotifyDone(ok) ==
    /\ tasks["shutdown"].pc = "stop" /\ ~Woken("shutdown")
    /\ ok => tasks["shutdown"].lk \in live
    /\ subs' = IF ok THEN subs \ {tasks["shutdown"].lk} ELSE subs
    /\ ready' = Append(ready, ResumeH("shutdown", ok, <<>>))
    /\ ev' = Ev("stop_io", "shutdown", ok)
    /\ UNCHANGED <<coordVars, bleak, state, last_reported_pressure, live,
                   nextLink, tasks, now, events, decodeVars, handle>>

\* a disconnect() that lets the stop_notify error escape
AfterStopAborts(ok) == IF ok THEN "teardown" ELSE "done"

\* where disconnect() continues after stop_notify: its error is caught
\* and logged, so the link teardown follows in both cases
AfterStop(ok) == "teardown"

\* disconnect() resumes after stop_notify, whatever its outcome, and
\* awaits self._client.disconnect()
ResumeStop ==
    /\ Resuming("shutdown", "stop")
    /\ ready' = Tail(ready)
    /\ tasks' = [tasks EXCEPT !["shutdown"] =
                    At("shutdown", AfterStop(Head(ready).ok), bleak)]
    /\ ev' = Ev("stopped", "shutdown", Head(ready).ok)
    /\ UNCHANGED <<coordVars, bleak, state, last_reported_pressure, radioVars,
                   now, events, decodeVars, handle>>

\* the radio finishes BleakClient.disconnect; closing a live link makes
\* bleak call disconnected_callback
TeardownDone(ok) ==
    /\ tasks["shutdown"].pc = "teardown" /\ ~Woken("shutdown")
    /\ ev' = Ev("teardown_io", "shutdown", ok)
    /\ IF ok /\ tasks["shutdown"].lk \in live
       THEN /\ live' = live \ {tasks["shutdown"].lk}
            /\ subs' = subs \ {tasks["shutdown"].lk}
            /\ state' = SessionOnDisconnect(ready).st
            /\ ready' = Append(SessionOnDisconnect(ready).q,
                               ResumeH("shutdown", TRUE, <<>>))
       ELSE /\ ready' = Append(ready, ResumeH("shutdown", ok, <<>>))
            /\ UNCHANGED <<live, subs, state>>
    /\ UNCHANGED <<coordVars, bleak, last_reported_pressure, nextLink, tasks,
                   now, events, decodeVars, handle>>

\* disconnect() resumes after the link teardown, whatever its outcome
ResumeTeardown ==
    /\ Resuming("shutdown", "teardown")
    /\ DisconnectEnds(Tail(ready))
    /\ ev' = Ev("disconnected", "shutdown", Head(ready).ok)
    /\ UNCHANGED <<connecting, expected_disconnect, was_available,
                   last_battery_check, registered, client, bleak,
                   last_reported_pressure, radioVars, now, events, decodeVars,
                   handle>>

(***************************************************************************)
(* The zero-pressure button.                                               *)
(***************************************************************************)
\* PressensorZeroPressureButton.async_press up to its first suspension
ZeroPress ==
    /\ Event
    /\ tasks["zero"].pc = "idle"
    /\ ~expected_disconnect
    /\ IF ~ClientConnected
       THEN /\ ev' = EvRet("zero_notconnected", "zero", FALSE, "NotConnected")
            /\ UNCHANGED tasks
       ELSE /\ CanStart
            /\ tasks' = [tasks EXCEPT !["zero"] = At("zero", "write", bleak)]
            /\ ev' = Ev("zero_write", "zero", TRUE)
    /\ UNCHANGED <<coordVars, bleak, state, last_reported_pressure, radioVars,
                   ready, now, decodeVars, handle>>

\* the radio finishes write_gatt_char(ZERO, [0x00], response=True)
WriteDone(ok) ==
    /\ tasks["zero"].pc = "write" /\ ~Woken("zero")
    /\ ok => tasks["zero"].lk \in live
    /\ ready' = Append(ready, ResumeH("zero", ok, <<>>))
    /\ ev' = Ev("write_io", "zero", ok)
    /\ UNCHANGED <<coordVars, bleak, state, last_reported_pressure, radioVars,
                   tasks, now, events, decodeVars, handle>>

\* what async_press reports once zero_pressure() returned: zero_pressure
\* catches the write error itself, so the caller sees a normal return
ZeroOutcome(ok) == "ok"

\* zero_pressure() and async_press resume after the write
ResumeWrite ==
    /\ Resuming("zero", "write")
    /\ ready' = Tail(ready)
    /\ tasks' = [tasks EXCEPT !["zero"] = Idle]
    /\ ev' = EvRet("zero_ret", "zero", Head(ready).ok,
                    ZeroOutcome(Head(ready).ok))
    /\ UNCHANGED <<coordVars, bleak, state, last_reported_pressure, radioVars,
                   now, events, decodeVars, handle>>

(***************************************************************************)
(* The coordinator with its session and the radio.                         *)
(***************************************************************************)
ConnectTasks == AdvTasks \cup {"manual", "poll", "maint"}

Next ==
    \/ AsyncSetup
    \/ Tick
    \/ OnBluetoothAdvertisement
    \/ \E t \in AdvTasks : RunAdvTask(t)
    \/ RequestConnect
    \/ UpdateData
    \/ BatteryCheck
    \/ \E t \in ConnectTasks, ok \in BOOLEAN : EstablishDone(t, ok)
    \/ \E t \in ConnectTasks : ResumeEstablish(t)
    \/ \E t \in ConnectTasks, ok \in BOOLEAN : SubscribeDone(t, ok)
    \/ \E t \in ConnectTasks : ResumeSubscribe(t)
    \/ \E t \in ConnectTasks, ok \in BOOLEAN, v \in BatteryPayloads : ReadDone(t, ok, v)
    \/ \E t \in ConnectTasks : ResumeBattery(t)
    \/ ResumeMaintRead
    \/ RunStateUpdate
    \/ RunDisconnect
    \/ \E k \in live : LinkLost(k)
    \/ \E d \in MainPayloads : Notification(d)
    \/ Shutdown
    \/ \E ok \in BOOLEAN : StopNotifyDone(ok)
    \/ ResumeStop
    \/ \E ok \in BOOLEAN : TeardownDone(ok)
    \/ ResumeTeardown
    \/ ZeroPress
    \/ \E ok \in BOOLEAN : WriteDone(ok)
    \/ ResumeWrite

Spec == Init /\ [][Next]_vars

(***************************************************************************)
(* Decoder runs: a session built without callbacks is fed notifications,   *)
(* as PressensorClient._on_pressure_notification is by bleak.              *)
(***************************************************************************)
\* raw pressures the peripheral reports in a decoder run
DecodeRaws == {-16, -6, 4, 16, 1000, 1004, 1005, 1006, 1016}

\* _on_pressure_notification(struct.pack(">h", p)) on a session without
\* state callback
Deliver(p) ==
    /\ Len(inp) < MaxSeq
    /\ LET r == OnNotification(PackH(p), state, last_reported_pressure)
       IN  /\ state' = r.st
           /\ last_reported_pressure' = r.last
           /\ ev' = Ev("notification", "-", r.changed)
    /\ data' = PackH(p)
    /\ inp' = Append(inp, p)
    /\ out' = Append(out, state'.pressure_mbar)
    /\ UNCHANGED <<coordVars, bleak, radioVars, tasks, ready, now, events,
                   handle>>

NextDecode == \E p \in DecodeRaws : Deliver(p)

SpecDecode == Init /\ [][NextDecode]_vars

\* every value of a signed 16-bit field
Int16 == -32768..32767

\* a fresh session about to receive the encoding of one raw pressure
InitRound ==
    /\ connecting = FALSE
    /\ expected_disconnect = FALSE
    /\ was_available = FALSE
    /\ last_battery_check = None
    /\ registered = FALSE
    /\ shutdown_requested = FALSE
    /\ client = FALSE
    /\ bleak = 0
    /\ state = FreshState
    /\ last_reported_pressure = 0
    /\ live = {}
    /\ subs = {}
    /\ nextLink = 0
    /\ tasks = [t \in TaskIds |-> Idle]
    /\ ready = <<>>
    /\ now = 1
    /\ events = 0
    /\ ev = Ev("init", "-", TRUE)
    /\ \E p \in Int16 : inp = <<p>> /\ data = PackH(p)
    /\ out = <<>>
    /\ handle = NoHandle

\* the first notification of a session: out keeps the candidate pressure
DecodeOne ==
    /\ out = <<>>
    /\ LET r == OnNotification(data, state, last_reported_pressure)
       IN  /\ state' = r.st
           /\ last_reported_pressure' = r.last
           /\ ev' = Ev("notification", "-", r.changed)
    /\ out' = <<Candidate(data)>>
    /\ UNCHANGED <<coordVars, bleak, radioVars, tasks, ready, now, events,
                   data, inp, handle>>

NextRound == DecodeOne

SpecRound == InitRound /\ [][NextRound]_vars

\* Payloads of every length class: pressure alone, pressure with
\* temperature 93.5, 94.0 and -0.5, nothing, one byte, three bytes
MaxNotes == 4
Payloads ==
    {PackH(1000), PackH(1000) \o PackH(935), PackH(1000) \o PackH(940),
     PackH(4) \o PackH(-5), <<>>, <<3>>, PackH(1000) \o <<7>>}

\* _on_pressure_notification(d) on a session whose state callback is
\* the coordinator's; out records the Reading after each payload
PressureNotification(d) ==
    /\ Len(inp) < MaxNotes
    /\ LET r == OnNotification(d, state, last_reported_pressure)
       IN  /\ state' = r.st
           /\ last_reported_pressure' = r.last
           /\ ready' = NotifyIfChanged(ready, r.changed, r.st)
           /\ ev' = Ev("notification", "-", r.changed)
    /\ data' = d
    /\ inp' = Append(inp, d)
    /\ out' = Append(out, state')
    /\ UNCHANGED <<coordVars, bleak, radioVars, tasks, now, events, handle>>

\* _on_disconnect on a session that had been marked connected, built
\* with (cb) or without a disconnect callback
OnDisconnectOf(cb) ==
    /\ state.connected
    /\ state' = SessionOnDisconnectWith(ready, cb).st
    /\ ready' = SessionOnDisconnectWith(ready, cb).q
    /\ ev' = EvRet("link_lost", "-", TRUE,
                   IF cb THEN "disconnect_callback" ELSE "None")
    /\ UNCHANGED <<coordVars, bleak, last_reported_pressure, radioVars,
                   tasks, now, events, decodeVars, handle>>

\* _on_disconnect on a session built by the coordinator
OnDisconnect == OnDisconnectOf(TRUE)

NextPayload ==
    \/ \E d \in Payloads : PressureNotification(d)
    \/ OnDisconnect

SpecPayload == Init /\ [][NextPayload]_vars

\* The same session with the loop running the coordinator's handlers
\* that the session's callbacks queued
MaxCalls == 2
NextCallbacks ==
    \/ \E d \in Payloads : Len(inp) < MaxCalls /\ PressureNotification(d)
    \/ \E cb \in BOOLEAN : OnDisconnectOf(cb)
    \/ RunStateUpdate
    \/ RunDisconnect

SpecCallbacks == Init /\ [][NextCallbacks]_vars

(***************************************************************************)
(* Properties.                                                             *)
(***************************************************************************)
\* a link that is up and carries the telemetry subscription
LiveSubscription == \E k \in live : k \in subs
\* neither connect() nor disconnect() is running
Quiescent ==
    /\ InFlight = {}
    /\ tasks["shutdown"].pc \notin {"stop", "teardown"}

\* C1: at most one Session.connect call is in flight at any time, whatever
\* the interleaving of advertisement, fallback poll, manual request and
\* battery-check timer.
C1_OneConnectInFlight == Cardinality(InFlight) <= 1

\* C2: when a second advertisement task was created while the first was
\* still waiting to start, the second task finds the guard set and returns
\* without constructing a session or calling connect, and exactly one
\* connect call holding the guard is in flight at that moment.
C2_SecondAdvertisementSkipped ==
    [][(ev'.a \in {"adv_skip", "adv_connect"} /\ tasks[ev'.t].dup)
         => /\ ev'.a = "adv_skip"
            /\ connecting /\ connecting'
            /\ client' = client
            /\ InFlight' = InFlight
            /\ Cardinality(InFlight \cap (AdvTasks \cup {"manual"})) = 1]_vars

\* the second of two back-to-back advertisement tasks was skipped while
\* the first one is connecting
C2_Witness ==
    /\ ev.a = "adv_skip"
    /\ tasks[ev.t].dup
    /\ \E u \in AdvTasks : u \in InFlight

\* C3: a manual request_connect whose connection attempt failed returns
\* ConnectionFailed to its caller.
C3_ManualFailureSurfaced ==
    (ev.a = "connect_ret" /\ ev.t = "manual" /\ ~ev.ok)
        => ev.ret = "ConnectionFailed"

\* C4: whenever the session reports connected (the Reading's flag, or the
\* connected property once no connect or disconnect is running), a live
\* link with an active telemetry subscription exists.
C4_ConnectedImpliesSubscribed ==
    /\ (state.connected /\ tasks["shutdown"].pc \notin {"stop", "teardown"})
           => LiveSubscription
    /\ (Quiescent /\ Connected) => bleak \in subs

\* C5: on a fresh session the raw pressures 1000, 1004, 1005, 1006, 1016
\* leave the reported pressure at 1000, 1000, 1000, 1000, 1020.
C5_DeadbandScenario ==
    \A n \in 1..5 :
        inp = SubSeq(<<1000, 1004, 1005, 1006, 1016>>, 1, n)
            => out = SubSeq(<<1000, 1000, 1000, 1000, 1020>>, 1, n)

C7_RoundsToNearestTen ==
    out # <<>> =>
        LET p == inp[1]
            c == out[1]
        IN  /\ c % 10 = 0
            /\ Abs(c - p) <= 5
            /\ Abs(c - p) = 5 => (c \div 10) % 2 = 0
            /\ p = 1004 => c = 1000
            /\ p = 1006 => c = 1010
            /\ p = 1005 => c = 1000
            /\ p = 1015 => c = 1020
            /\ p = -6 => c = -10

\* a tie was decoded
C7_Witness == out # <<>> /\ inp[1] = 1015 /\ out[1] = 1020

\* C8: once shutdown has completed, the Reading's connected flag is false
\* and stays false.
C8_ShutdownFinal == tasks["shutdown"].pc = "done" => ~state.connected

\* C9: the battery-check timestamp changes only in a step in which a
\* battery read or a connect attempt succeeded.
C9_StampOnlyOnSuccess ==
    [][last_battery_check' # last_battery_check
         => (ev'.a \in {"connect_ret", "read_ret"} /\ ev'.ok)]_vars

\* C10: the zero calibration reports ok for an acknowledged write,
\* NotConnected without a live link and CommandFailed for a failed write.
C10_ZeroOutcomes ==
    /\ (ev.a = "zero_ret" /\ ev.ok) => ev.ret = "ok"
    /\ (ev.a = "zero_ret" /\ ~ev.ok) => ev.ret = "CommandFailed"
    /\ ev.a = "zero_notconnected" => ev.ret = "NotConnected"

\* the steps that are an invocation of async_request_connect
ManualEntry == {"manual_skip", "manual_notfound", "manual_connect"}

\* C11: a manual connect request made while the session is connected or
\* while the attempt flag is set returns success without a lookup and
\* without a connect call, and changes neither the flag, the session nor
\* the battery-check timestamp.
C11_GuardedRequestIsNoOp ==
    [][(/\ ev'.a \in ManualEntry
        /\ events' = events + 1
        /\ (connecting \/ (client /\ bleak # 0 /\ bleak \in live)))
         => (/\ ev' = EvRet("manual_skip", "manual", TRUE, "ok")
             /\ UNCHANGED <<connecting, client, bleak, state,
                            last_reported_pressure, last_battery_check,
                            tasks, ready, radioVars>>)]_vars

\* a request was answered while the link was up and no attempt ran
C11_Witness ==
    /\ ev.a = "manual_skip"
    /\ ~connecting
    /\ client /\ bleak \in live

\* C12: a manual connect request made with the flag clear, no live link
\* and a peripheral the radio subsystem cannot locate reports
\* DeviceNotFound, creates no session, starts no connect and leaves the
\* flag false.
C12_NotFoundLeavesNoTrace ==
    [][(ev'.a = "manual_notfound" /\ events' = events + 1)
         => (/\ ~connecting /\ ~(client /\ bleak # 0 /\ bleak \in live)
             /\ ev'.ret = "DeviceNotFound"
             /\ ~ev'.ok
             /\ client' = client
             /\ tasks' = tasks
             /\ ready' = ready
             /\ ~connecting')]_vars

\* the lookup failed before any session existed
C12_Witness == ev.a = "manual_notfound" /\ ~client /\ ~connecting

\* C13: disconnect() returns without an error in every session state and
\* whatever the unsubscribe and the teardown do, leaves the Reading's
\* connected flag false, and on a live link goes on to the teardown even
\* when the unsubscribe failed.
C13_DisconnectAlwaysCompletes ==
    [][/\ ev'.a = "stopped" => tasks'["shutdown"].pc = "teardown"
       /\ ev'.a = "disconnected"
            => (tasks'["shutdown"].pc = "done" /\ ~state'.connected)
       /\ (ev'.a = "shutdown" /\ events' = events + 1
             /\ client /\ ~(bleak # 0 /\ bleak \in live))
            => (tasks'["shutdown"].pc = "done" /\ ~state'.connected)]_vars

\* the unsubscribe failed and the teardown is under way
C13_Witness ==
    ev.a = "stopped" /\ ~ev.ok /\ tasks["shutdown"].pc = "teardown"

\* C14: a notification of at least four bytes leaves the stored
\* temperature equal to raw tenths / 10, the value changing exactly when
\* the carried one differs from the stored one, without any threshold:
\* 93.5 followed by 93.5 alone causes no further update, 93.5 followed
\* by 94.0 stores 94.0.
C14_TemperatureUpdate ==
    [][(ev'.a = "notification" /\ Len(data') >= 4)
         => LET raw == UnpackH(SubSeq(data', 3, 4))
                t == <<<<IF raw < 0 THEN -1 ELSE 1,
                         Abs(raw) \div 10, Abs(raw) % 10>>>>
            IN  /\ state'.temperature_c = t
                /\ (state'.temperature_c # state.temperature_c)
                     <=> (t # state.temperature_c)
                /\ (t = state.temperature_c
                      /\ state'.pressure_mbar = state.pressure_mbar
                      /\ state.connected)
                     => ready' = ready
                /\ raw = 940 => state'.temperature_c = <<<<1, 94, 0>>>>]_vars

\* 93.5 was stored and the next notification, carrying 94.0, replaced it
C14_Witness ==
    /\ Len(out) >= 2
    /\ out[Len(out) - 1].temperature_c = <<<<1, 93, 5>>>>
    /\ inp[Len(inp)] = PackH(1000) \o PackH(940)
    /\ state.temperature_c = <<<<1, 94, 0>>>>

\* C15: a payload of fewer than two bytes leaves pressure, temperature
\* and the dead-band baseline unchanged in every session state and is
\* processed without an error; a payload of two or three bytes leaves the
\* temperature unchanged.
C15_ShortPayloadFields ==
    [][ev'.a = "notification"
         => /\ Len(data') < 2
                 => /\ state'.pressure_mbar = state.pressure_mbar
                    /\ state'.temperature_c = state.temperature_c
                    /\ last_reported_pressure' = last_reported_pressure
            /\ Len(data') < 4
                 => state'.temperature_c = state.temperature_c]_vars

\* a one-byte payload was processed by a session holding a pressure and
\* a temperature
C15_Witness ==
    /\ ev.a = "notification"
    /\ Len(data) = 1
    /\ state.pressure_mbar = 1000
    /\ state.temperature_c # None

\* C16: a payload of fewer than two bytes changes no field of the
\* Reading, the connected flag included, and invokes no state-changed
\* callback.
C16_ShortPayloadNoChange ==
    [][(ev'.a = "notification" /\ Len(data') < 2)
         => (state' = state /\ ready' = ready)]_vars

\* C17: one notification invokes the state-changed callback at most
\* once: once when it changed a field of the Reading, not at all when it
\* changed none.
C17_OneCallbackPerChange ==
    [][ev'.a = "notification"
         => \/ state' # state /\ ready' = Append(ready, StateH)
            \/ state' = state /\ ready' = ready]_vars

\* of two notifications the first changed the Reading and was announced,
\* the second changed nothing and was not
C17_Witness ==
    /\ Len(inp) = 2
    /\ out[1] # FreshState
    /\ out[2] = out[1]
    /\ ev.a = "notification"
    /\ ready = <<StateH>>

\* the steps that are a firing of the maintenance timer
MaintEntry == {"maint_recent", "maint_read", "maint_notfound", "maint_connect"}

\* C18: a maintenance check that fires sooner than the maintenance
\* interval after the last recorded battery check does nothing: no
\* battery read, no lookup, no connect, no published update, and the
\* timestamp stays as it was.
C18_RecentCheckIsNoOp ==
    [][(/\ ev'.a \in MaintEntry
        /\ events' = events + 1
        /\ last_battery_check # <<>>
        /\ now - last_battery_check[1] < BATTERY_CHECK_INTERVAL)
         => (/\ ev' = Ev("maint_recent", "maint", TRUE)
             /\ ev'.pub = 0
             /\ UNCHANGED <<coordVars, bleak, state, last_reported_pressure,
                            radioVars, tasks, ready, now>>)]_vars

\* the timer fired in the tick of the last battery check
C18_Witness ==
    /\ ev.a = "maint_recent"
    /\ last_battery_check = <<now>>

\* C19: once an advertisement-driven or manual attempt has finished,
\* with connect() succeeding or failing, the attempt flag is false; the
\* flag is true only while such an attempt is running.
C19_GuardNeverStuck ==
    /\ connecting => \E t \in GuardedTasks : tasks[t].pc \in ConnectPcs
    /\ (ev.a = "connect_ret" /\ ev.t \in GuardedTasks) => ~connecting

\* an advertisement-driven attempt failed and the flag is clear
C19_Witness ==
    /\ ev.a = "connect_ret"
    /\ ev.t \in AdvTasks
    /\ ~ev.ok
    /\ ~connecting

\* C20: a connect() whose handshake, subscription and battery read all
\* succeed has awaited exactly establish_connection, start_notify and the
\* battery read, once each and in that order, then sets the Reading's
\* connected flag, calls the state callback and returns success with the
\* battery value it read stored in the Reading.
C20_ConnectSequence ==
    [][\A t \in ConnectTasks :
          (/\ ev'.a = "connect_ret" /\ ev'.t = t
           /\ tasks[t].pc = "battery"
           /\ ready # <<>> /\ Head(ready).ok /\ Head(ready).v # <<>>)
            => (/\ tasks[t].ops = <<"establish", "subscribe", "battery">>
                /\ ev'.ok
                /\ t = "manual" => ev'.ret = "ok"
                /\ state'.connected
                /\ state'.battery_percent = <<Head(ready).v[1]>>
                /\ ready' # <<>> /\ ready'[Len(ready')] = StateH
                /\ tasks'[t].pc = "idle")]_vars

\* a manual connect went through all three steps and returned
C20_Witness ==
    /\ ev.a = "connect_ret" /\ ev.t = "manual" /\ ev.ok
    /\ state.connected
    /\ state.battery_percent = <<85>>
    /\ bleak \in subs

\* C21: when establish_connection or start_notify fails, connect() raises
\* nothing, returns failure, leaves the Reading's connected flag false and
\* calls the state callback with that snapshot.
C21_ConnectFailureReported ==
    [][\A t \in ConnectTasks :
          (/\ ev'.a = "connect_ret" /\ ev'.t = t
           /\ tasks[t].pc \in {"establish", "subscribe"}
           /\ ready # <<>> /\ ~Head(ready).ok)
            => (/\ ~ev'.ok
                /\ ~state'.connected
                /\ ready' = Append(Tail(ready), StateH)
                /\ tasks'[t].pc = "idle")]_vars

\* a connect() whose subscription failed has returned
C21_Witness ==
    /\ ev.a = "connect_ret" /\ ~ev.ok
    /\ bleak # 0
    /\ ~state.connected
    /\ ready # <<>> /\ ready[Len(ready)] = StateH

\* C22: read_battery on a connected session calls the state callback only
\* when the percentage it decoded differs from the stored one; reading
\* the same percentage again, or an empty payload, publishes nothing.
C22_BatteryPublishedOnChange ==
    [][(ev'.a = "read_ret" /\ ev'.ok)
         => /\ state'.battery_percent # state.battery_percent
                 => ready' = Append(Tail(ready), StateH)
            /\ state'.battery_percent = state.battery_percent
                 => ready' = Tail(ready)]_vars

\* C23: the coordinator's disconnect handler does nothing once shutdown
\* has marked the disconnect as expected: no update is published and the
\* availability bookkeeping is untouched; for an unexpected disconnect it
\* publishes exactly one update and marks the device unavailable.
C23_ExpectedDisconnectIgnored ==
    [][ev'.a = "disconnect_cb"
         => IF expected_disconnect
            THEN ev'.pub = 0 /\ was_available' = was_available
            ELSE ev'.pub = 1 /\ ~was_available']_vars

\* the handler ran for the disconnect issued by shutdown, the device
\* still being marked available
C23_Witness ==
    /\ ev.a = "disconnect_cb"
    /\ expected_disconnect
    /\ was_available

\* C24: over the coordinator's lifetime at most one session is made, and
\* no connect() in flight works with a peripheral handle older than the
\* latest one given to the session.
C24_OneSessionFreshHandle ==
    /\ handle.made <= 1
    /\ \A t \in InFlight : tasks[t].dev >= handle.held

\* C25: whenever a connect() issued by the coordinator is in flight, from
\* whichever trigger, the attempt flag is true.
C25_InFlightImpliesGuard == InFlight # {} => connecting

\* the steps that are a firing of the advertisement callback, of the
\* fallback poll or of the maintenance timer
OpportunisticEntry ==
    {"advert", "poll_skip", "poll_notfound", "poll_connect"} \cup MaintEntry

\* C26: an advertisement, a fallback poll or a maintenance timer that
\* fires while the attempt flag is true starts no connection attempt: no
\* lookup, no session made, no connect() call, for the maintenance timer
\* also when the battery check is due.
C26_TriggersRespectGuard ==
    [][(/\ ev'.a \in OpportunisticEntry
        /\ events' = events + 1
        /\ connecting)
         => (/\ ev'.a \notin {"poll_notfound", "poll_connect",
                              "maint_notfound", "maint_connect"}
             /\ InFlight' = InFlight
             /\ \A t \in AdvTasks : tasks'[t] = tasks[t]
             /\ handle'.made = handle.made
             /\ handle'.held = handle.held)]_vars

\* C27: the disconnect callback for the link of a connection attempt is
\* never delivered before that attempt's connect-success state update.
\* Callbacks are delivered in the order they were queued, so the link of
\* an attempt must still be up when connect() marks the Reading connected
\* and queues the success update.
C27_DisconnectAfterSuccess ==
    [][\A t \in ConnectTasks :
          (ev'.a = "connect_ret" /\ ev'.t = t /\ ev'.ok)
            => tasks[t].lk \in live]_vars

Opportunistic == AdvTasks \cup {"poll", "maint"}

\* the steps at which an opportunistic handler can meet a failure
FailurePoints == {"poll_notfound", "maint_notfound", "connect_ret", "read_ret"}

\* C29: when an opportunistic handler meets a failure (peripheral not found,
\* connect attempt failed, battery read failed) it ends without an
\* exception, its coroutine is over so the same trigger can fire again, and
\* an advertisement-driven attempt has given the attempt flag back
C29_OpportunisticFailureContained ==
    [][\A t \in Opportunistic :
         (ev'.a \in FailurePoints /\ ev'.t = t /\ ~ev'.ok)
         => (/\ ev'.ret = "ok"
             /\ tasks'[t] = Idle
             /\ t \in AdvTasks => ~connecting'
             /\ shutdown_requested' = shutdown_requested
             /\ registered' = registered)]_vars

\* C29 happens: a battery check on a connected session whose read failed
\* has ended normally
C29_Witness ==
    /\ ev.a = "read_ret" /\ ev.t = "maint" /\ ~ev.ok
    /\ ev.ret = "ok" /\ tasks["maint"] = Idle

\* the steps of the session's final disconnect
DisconnectSteps == {"stop_io", "stopped", "teardown_io", "disconnected"}

\* C30: the step that starts shutdown leaves the expected-disconnect flag
\* set and the callbacks cancelled; every step of the session's final
\* disconnect runs with both already done; without a session the same step
\* completes shutdown
C30_ShutdownOrder ==
    [][/\ ev'.a = "shutdown"
          => (/\ expected_disconnect' /\ ~registered'
              /\ ~client => (/\ tasks'["shutdown"].pc = "done"
                             /\ shutdown_requested'
                             /\ ready' = ready /\ state' = state))
       /\ (ev'.t = "shutdown" /\ ev'.a \in DisconnectSteps)
          => (/\ expected_disconnect /\ ~registered
              /\ expected_disconnect' /\ ~registered')]_vars

\* C30 happens: shutdown of a connected session has reached the link
\* teardown with the flag set and the callbacks cancelled
C30_Witness ==
    /\ ev.a = "teardown_io" /\ ev.t = "shutdown"
    /\ client /\ expected_disconnect /\ ~registered

\* what a consumer reads now from the Reading it was given after payload
\* i: the state property and _notify_state hand out self._state itself,
\* the one object the session goes on writing to
SnapshotHeld(i) == state

\* C31: a Reading handed to a consumer keeps the field values it had when
\* it was handed out, whatever the session processes afterwards
C31_SnapshotsImmutable ==
    \A i \in 1..Len(out) : SnapshotHeld(i) = out[i]

\* the steps that run inside a callback bleak invokes: the notification
\* handler given to start_notify and the disconnected_callback given to
\* establish_connection; what they hand to call_soon_threadsafe runs later
RadioContext == {"notification", "link_lost", "teardown_io"}

\* C32: a step running in the radio subsystem's context writes neither the
\* Reading, nor the dead-band state, nor the attempt guard; it only queues
\* work for the control context
C32_RadioContextWritesNothing ==
    [][ev'.a \in RadioContext
         => (/\ state' = state
             /\ last_reported_pressure' = last_reported_pressure
             /\ connecting' = connecting)]_vars

\* C33: an unexpected link loss sets connected to false and queues the
\* state-changed callback followed by exactly one disconnected callback
\* (the state-changed callback alone on a session built without one); the
\* coordinator's disconnect handler, run after the state handler, publishes
\* one update
C33_LinkLossCallbacks ==
    [][/\ ev'.a = "link_lost"
          => (/\ ~state'.connected
              /\ ready' = IF ev'.ret = "None"
                          THEN ready \o <<StateH>>
                          ELSE ready \o <<StateH, DiscH>>)
       /\ (ev'.a = "disconnect_cb" /\ ~expected_disconnect)
          => (/\ ev'.pub = 1
              /\ Head(ready) = DiscH
              /\ ready' = Tail(ready))]_vars

\* C33 happens: after a link loss the state handler has run and the
\* disconnect handler has published its update, the Reading showing
\* connected = false
C33_Witness ==
    /\ ev.a = "disconnect_cb" /\ ev.pub = 1
    /\ ~state.connected /\ ready = <<>>

\* C34: the first two bytes are read as a signed big-endian 16-bit number:
\* pairs 0x0000..0x7FFF give 0..32767, pairs 0x8000..0xFFFF give
\* -32768..-1, and raw -50 on a fresh session is reported as -50
C34_SignedBigEndian ==
    LET u == data[1] * 256 + data[2]
        v == UnpackH(data)
    IN  /\ data[1] \in 0..255 /\ data[2] \in 0..255
        /\ u <= 32767 => v = u
        /\ u >= 32768 => (v = u - 65536 /\ v \in -32768..-1)
        /\ v = inp[1]
        /\ (out # <<>> /\ inp[1] = -50) => state.pressure_mbar = -50

\* C34 happens: the encoding of -50 was delivered to a fresh session and
\* reported
C34_Witness ==
    /\ out # <<>> /\ data = <<255, 206>>
    /\ state.pressure_mbar = -50 /\ last_reported_pressure = -50

\* C35: the reported pressure always equals the dead-band filter's
\* last-reported value and is a multiple of 10; the two change only in a
\* notification step, and then to the same value
C35_PressureIsBaseline ==
    /\ [](/\ state.pressure_mbar = last_reported_pressure
          /\ state.pressure_mbar % 10 = 0)
    /\ [][(state'.pressure_mbar # state.pressure_mbar
            \/ last_reported_pressure' # last_reported_pressure)
          => (/\ ev'.a = "notification" /\ ev'.ok
              /\ state'.pressure_mbar = last_reported_pressure'
              /\ state'.pressure_mbar # state.pressure_mbar)]_vars

\* C35 happens: a notification was accepted on a session that has since
\* lost its link, and the pressure still equals the baseline
C35_Witness ==
    /\ state.pressure_mbar = 100 /\ last_reported_pressure = 100
    /\ ~state.connected /\ ev.a = "disconnect_cb"

\* C36: whenever neither connect() nor disconnect() is running, the
\* link-level condition the coordinator's guard consults is true exactly
\* when the Reading's connected flag is true
C36_ConnectednessAgrees ==
    Quiescent => (ClientConnected <=> state.connected)

\* C37: before shutdown, an advertisement seen while the Reading says
\* connected = false and no connect attempt is in flight starts a new
\* attempt: the callback creates the connect task instead of returning
C37_ReconnectNeverBlocked ==
    [][(/\ ev'.a = "advert"
        /\ ~expected_disconnect /\ ~shutdown_requested
        /\ ~state.connected
        /\ InFlight = {})
         => (/\ ev'.ok
             /\ \E t \in AdvTasks : tasks'[t].pc = "queued"
                                     /\ tasks[t].pc = "idle")]_vars

\* C38: the availability bookkeeping turns true only in the handler of a
\* state update whose Reading says connected = true
C38_AvailableOnlyWhenConnected ==
    [][(~was_available /\ was_available')
         => (ev'.a = "state_update" /\ state.connected)]_vars

\* the steps in which a trigger calls Session.connect
ConnectEntry == {"adv_connect", "manual_connect", "poll_connect", "maint_connect"}

\* C39: once shutdown has set the expected-disconnect flag no trigger
\* starts a Session.connect call any more
C39_NoConnectAfterShutdown ==
    [][ev'.a \in ConnectEntry => ~expected_disconnect]_vars

====
